---- MODULE Spec2Model ----
(***************************************************************************)
(* Model of the GitLab services collector (src/YML.py):                    *)
(*   - GitLabAPIClient.make_request and the client operations built on it  *)
(*     (specification SpecClient),                                         *)
(*   - GitLabAPIClient.get_all_projects, the pagination loop               *)
(*     (specification SpecPage),                                           *)
(*   - GitLabServiceCollector.collect_all_services with its analysis       *)
(*     units, analyze_project, in threaded and sequential mode             *)
(*     (specification Spec),                                               *)
(*   - the functions of YAMLAnalyzer and the filter and the keying of      *)
(*     analyze_project, each applied to inputs from bounded sets           *)
(*     (specification SpecFn).                                             *)
(* Strings the code takes apart are sequences of one-character strings.    *)
(***************************************************************************)
EXTENDS Integers, Sequences, FiniteSets, TLC

VARIABLES
    \* ---- SpecClient: one client operation and its make_request call
    op,          \* the client operation that was called
    script,      \* what the remote answers to the successive HTTP attempts
    body,        \* the kind of body a 200 response carries
    attempt,     \* the loop variable of make_request
    sleeps,      \* the durations of the time.sleep calls so far, in order
    mrResult,    \* make_request: "pending", "response" or "none"
    opResult,    \* the operation: "pending", "value", "novalue" or "raised"
    \* ---- SpecPage: get_all_projects
    remote,      \* the remote listing: its pages
    cap,         \* config.max_projects
    page,        \* the page variable of the loop
    all_projects,\* the accumulator
    requested,   \* the page numbers requested so far, in order
    ppc,         \* "loop", "returned" or "raised"
    \* ---- Spec: collect_all_services
    pc,          \* position of collect_all_services
    use_threads, \* its parameter
    workers,     \* its parameter max_workers
    group_id,    \* the resolved group id (0: None)
    endpoint,    \* the URL of the listing request: "none", "all", "group"
    conn,        \* what test_connection returned: "unknown", "ok", "failed"
    projects,    \* the list get_all_projects returned
    stats,       \* self.stats
    results,     \* self.results
    unit,        \* the analysis units, one per listed project
    cur,         \* sequential mode: index of the project being analyzed
    mtmp,        \* the collecting loop's read of stats["errors"]
    mfut,        \* the future whose fault the collecting loop is counting
    reqs,        \* kinds of requests issued so far
    incs,        \* the amounts the "+=" executed so far have added, per counter
    seen,        \* futures the collecting loop has taken from as_completed
    failed,      \* the number of content fetches that yielded no response
    \* ---- SpecFn: one call of a function of YAMLAnalyzer or analyze_project
    fn,          \* the function that is called
    arg,         \* its argument
    ret          \* what it has returned so far, in order

varsClient == <<op, script, body, attempt, sleeps, mrResult, opResult>>
varsPage == <<remote, cap, page, all_projects, requested, ppc>>
varsColl == <<pc, use_threads, workers, group_id, endpoint, conn, projects,
              stats, results, unit, cur, mtmp, mfut, reqs, incs, seen, failed>>
varsFn == <<fn, arg, ret>>
vars == <<varsClient, varsPage, varsColl, varsFn>>

(***************************************************************************)
(* Strings                                                                 *)
(***************************************************************************)
Pow2(n) == 2 ^ n

\* s.startswith(p)
StartsWith(s, p) == Len(s) >= Len(p) /\ SubSeq(s, 1, Len(p)) = p

\* s.endswith(p)
EndsWith(s, p) == Len(s) >= Len(p) /\ SubSeq(s, Len(s) - Len(p) + 1, Len(s)) = p

\* s[n:]
Drop(s, n) == SubSeq(s, n + 1, Len(s))

\* s.replace(old, new): every non-overlapping occurrence, left to right
RECURSIVE Replace(_, _, _)
Replace(s, old, new) ==
    IF s = <<>> THEN <<>>
    ELSE IF StartsWith(s, old) THEN new \o Replace(Drop(s, Len(old)), old, new)
    ELSE <<Head(s)>> \o Replace(Tail(s), old, new)

(***************************************************************************)
(* GitLabAPIClient.make_request                                            *)
(***************************************************************************)
\* self.max_retries
max_retries == 3

\* The status codes the remote answers with.
Statuses == {200, 204, 404, 429, 500}

\* What one session.get / session.post call can do: answer with a status,
\* raise requests.exceptions.Timeout, or raise any other exception.
Responses ==
    [exc : {"none"}, status : Statuses]
        \cup [exc : {"Timeout", "ConnectionError"}, status : {0}]

Http(st) == [exc |-> "none", status |-> st]
TimeoutExc == [exc |-> "Timeout", status |-> 0]

\* The truth value of a requests.Response, which "response and ..." tests:
\* Response.__bool__ is Response.ok, true when the status is below 400.
ResponseBool(r) == r.status < 400

\* The sleep of the rate-limit branch.
RateLimitWait(a) == Pow2(a + 1)

\* A backoff that grows by one second per attempt.
TimeoutWaitLinear(a) == a + 1

\* The sleep of the timeout handler.
TimeoutWait(a) == Pow2(a)

\* One iteration of the retry loop, at loop variable a, the remote doing r:
\* what the iteration ends in and how long it sleeps.
Attempt(r, a) ==
    IF r.exc = "Timeout" THEN [next |-> "retry", sleep |-> TimeoutWait(a)]
    ELSE IF r.exc # "none" THEN [next |-> "none", sleep |-> 0]
    ELSE IF ResponseBool(r) /\ r.status = 200
        THEN [next |-> "response", sleep |-> 0]
    ELSE IF ResponseBool(r) /\ r.status = 429
        THEN [next |-> "retry", sleep |-> RateLimitWait(a)]
    ELSE [next |-> "none", sleep |-> 0]

\* The whole call on a script of answers, from loop variable a on:
\* the result and the number of HTTP attempts made.
RECURSIVE make_request(_, _)
make_request(s, a) ==
    IF a >= max_retries \/ a >= Len(s) THEN [result |-> "none", attempts |-> a]
    ELSE LET it == Attempt(s[a + 1], a)
         IN  IF it.next = "retry" THEN make_request(s, a + 1)
             ELSE [result |-> it.next, attempts |-> a + 1]

\* The scripts of answers one call can consume.
Scripts == [1..max_retries -> Responses]

(***************************************************************************)
(* The client operations built on make_request                             *)
(***************************************************************************)
Ops == {"test_connection", "get_group_id", "get_project_files", "get_file_content"}

\* What the body of a 200 response can be.
Bodies == {"json_object", "json_list", "not_json"}

\* response.json() raises on a body that is not JSON.
JsonRaises(b) == b = "not_json"

\* response.json().get(...) also raises on a JSON value that is no object.
JsonGetRaises(b) == b # "json_object"

\* What the operation o does with make_request's result r and the body b.
OpOutcome(o, r, b) ==
    IF r = "none" THEN "novalue"
    ELSE CASE o = "test_connection" -> IF JsonGetRaises(b) THEN "raised" ELSE "value"
           [] o = "get_group_id" -> IF JsonGetRaises(b) THEN "raised" ELSE "value"
           [] o = "get_project_files" -> IF JsonRaises(b) THEN "raised" ELSE "value"
           [] o = "get_file_content" -> "value"

InitClient ==
    /\ op \in Ops
    /\ script \in Scripts
    /\ body \in Bodies
    /\ attempt = 0
    /\ sleeps = <<>>
    /\ mrResult = "pending"
    /\ opResult = "pending"

IdleClient ==
    /\ op = "test_connection"
    /\ script = [i \in 1..max_retries |-> Http(200)]
    /\ body = "json_object"
    /\ attempt = 0
    /\ sleeps = <<>>
    /\ mrResult = "none"
    /\ opResult = "novalue"

\* One iteration of "for attempt in range(self.max_retries)".
MakeRequestStep ==
    /\ mrResult = "pending"
    /\ attempt < max_retries
    /\ LET it == Attempt(script[attempt + 1], attempt)
       IN  /\ sleeps' = IF it.sleep > 0 THEN Append(sleeps, it.sleep) ELSE sleeps
           /\ IF it.next = "retry"
                THEN /\ attempt' = attempt + 1
                     /\ mrResult' = mrResult
                ELSE /\ attempt' = attempt
                     /\ mrResult' = it.next
    /\ UNCHANGED <<varsColl, varsPage, varsFn>>
    /\ UNCHANGED <<op, script, body, opResult>>

\* The loop ran out of attempts: the final "return None".
MakeRequestExhausted ==
    /\ mrResult = "pending"
    /\ attempt >= max_retries
    /\ mrResult' = "none"
    /\ UNCHANGED <<varsColl, varsPage, varsFn>>
    /\ UNCHANGED <<op, script, body, attempt, sleeps, opResult>>

\* The rest of the operation, after make_request returned.
OpFinish ==
    /\ mrResult # "pending"
    /\ opResult = "pending"
    /\ opResult' = OpOutcome(op, mrResult, body)
    /\ UNCHANGED <<varsColl, varsPage, varsFn>>
    /\ UNCHANGED <<op, script, body, attempt, sleeps, mrResult>>

NextClient ==
    \/ MakeRequestStep
    \/ MakeRequestExhausted
    \/ OpFinish

(***************************************************************************)
(* GitLabAPIClient.get_all_projects                                        *)
(***************************************************************************)
\* The per_page parameter of the listing request.
per_page == 50

\* Most pages a modelled remote listing has.
MaxPages == 3

\* A page of the remote listing: what the request for it ends in ("ok": a
\* 200 response with a JSON list; "fail": make_request returned None;
\* "malformed": a 200 response whose body is not JSON), the number of
\* projects on it and whether the response carries the 'next' link.
PageShapes ==
    [resp : {"ok"}, size : {0, 1, per_page}, next : BOOLEAN]
        \cup [resp : {"fail", "malformed"}, size : {0}, next : {FALSE}]

FullPage(n) == [resp |-> "ok", size |-> per_page, next |-> n]

\* N full pages, every page but the last advertising a next page.
RegularListing(n) == [p \in 1..n |-> FullPage(p < n)]

IsRegular(r) == Len(r) >= 1 /\ r = RegularListing(Len(r))

ListingsOfLen(n) == [1..n -> PageShapes]

\* The caps tried on the listings that are not regular.
SmallCaps == {0, 1, 2, per_page, per_page + 1}

\* A page past the end of the remote listing is empty.
PageAt(r, p) ==
    IF p <= Len(r) THEN r[p] ELSE [resp |-> "ok", size |-> 0, next |-> FALSE]

\* The projects on page p, identified by their rank in the remote's order.
Items(p, size) == [j \in 1..size |-> (p - 1) * per_page + j]

\* The whole remote listing in remote order.
RECURSIVE RemoteConcat(_, _)
RemoteConcat(r, p) ==
    IF p > Len(r) THEN <<>> ELSE Items(p, r[p].size) \o RemoteConcat(r, p + 1)

\* A cap that is detected but not applied.
TruncateNone(acc, c) == acc

\* all_projects[:self.config.max_projects]
Truncate(acc, c) == SubSeq(acc, 1, c)

\* A cap that stops the loop only once it is exceeded.
CapReachedStrict(acc, c) == c # 0 /\ Len(acc) > c

\* "self.config.max_projects and len(all_projects) >= self.config.max_projects"
CapReached(acc, c) == c # 0 /\ Len(acc) >= c

InitPage ==
    /\ \E n \in 1..MaxPages :
          \/ remote = RegularListing(n) /\ cap \in 0..(n * per_page + 1)
          \/ remote \in ListingsOfLen(n) /\ cap \in SmallCaps
    /\ page = 1
    /\ all_projects = <<>>
    /\ requested = <<>>
    /\ ppc = "loop"

IdlePage ==
    /\ remote = <<>>
    /\ cap = 0
    /\ page = 1
    /\ all_projects = <<>>
    /\ requested = <<>>
    /\ ppc = "returned"

\* One iteration of the "while True" loop.
PageStep ==
    /\ ppc = "loop"
    /\ requested' = Append(requested, page)
    /\ LET r == PageAt(remote, page)
           acc == all_projects \o Items(page, r.size)
       IN  IF r.resp = "malformed"
             THEN ppc' = "raised" /\ UNCHANGED <<all_projects, page>>
           ELSE IF r.resp = "fail" \/ r.size = 0
             THEN ppc' = "returned" /\ UNCHANGED <<all_projects, page>>
           ELSE IF CapReached(acc, cap)
             THEN /\ all_projects' = Truncate(acc, cap)
                  /\ ppc' = "returned"
                  /\ page' = page
           ELSE IF ~r.next
             THEN /\ all_projects' = acc
                  /\ ppc' = "returned"
                  /\ page' = page
           ELSE /\ all_projects' = acc
                /\ page' = page + 1
                /\ ppc' = ppc
    /\ UNCHANGED <<varsColl, varsClient, varsFn>>
    /\ UNCHANGED <<remote, cap>>

NextPage == PageStep

(***************************************************************************)
(* YAMLAnalyzer.normalize_service_name and the manifest key                *)
(***************************************************************************)
yml == <<".", "y", "m", "l">>
yaml == <<".", "y", "a", "m", "l">>
services_ == <<"s", "e", "r", "v", "i", "c", "e", "s", "_">>

\* The end of the shortest match of \[.*?\] that starts at s[1] = "[":
\* the first "]" with no newline before it; 0 when there is none.
BracketEnd(s) ==
    LET ends == {j \in 2..Len(s) :
                    s[j] = "]" /\ \A k \in 2..(j - 1) : s[k] \notin {"]", "\n"}}
    IN  IF s # <<>> /\ Head(s) = "[" /\ ends # {} THEN CHOOSE j \in ends : TRUE
        ELSE 0

\* re.sub(r'\[.*?\]', '', name)
RECURSIVE RemoveBrackets(_)
RemoveBrackets(s) ==
    IF s = <<>> THEN <<>>
    ELSE IF BracketEnd(s) > 0 THEN RemoveBrackets(Drop(s, BracketEnd(s)))
    ELSE <<Head(s)>> \o RemoveBrackets(Tail(s))

\* re.sub(r'_+', '_', name)
RECURSIVE CollapseUnderscores(_)
CollapseUnderscores(s) ==
    IF Len(s) < 2 THEN s
    ELSE IF s[1] = "_" /\ s[2] = "_" THEN CollapseUnderscores(Tail(s))
    ELSE <<Head(s)>> \o CollapseUnderscores(Tail(s))

\* name.strip('_')
RECURSIVE StripUnderscores(_)
StripUnderscores(s) ==
    IF s = <<>> THEN s
    ELSE IF Head(s) = "_" THEN StripUnderscores(Tail(s))
    ELSE IF s[Len(s)] = "_" THEN StripUnderscores(SubSeq(s, 1, Len(s) - 1))
    ELSE s

StripServicesPrefix(s) == IF StartsWith(s, services_) THEN Drop(s, Len(services_)) ELSE s

normalize_service_name(name) ==
    IF name = <<>> THEN <<>>
    ELSE LET a == Replace(Replace(name, <<"-">>, <<"_">>), <<".">>, <<"_">>)
             b == StripServicesPrefix(a)
             c == RemoveBrackets(b)
             d == CollapseUnderscores(c)
         IN  StripUnderscores(d)

\* key = yf['name'].replace('.yml', '').replace('.yaml', ''), less 'services_'
ManifestKey(name) ==
    StripServicesPrefix(Replace(Replace(name, yml, <<>>), yaml, <<>>))

(***************************************************************************)
(* Dictionaries                                                            *)
(***************************************************************************)
EmptyDict == [k \in {} |-> 0]

\* d[k] = v
Put(d, k, v) == [x \in (DOMAIN d) \cup {k} |-> IF x = k THEN v ELSE d[x]]

(***************************************************************************)
(* What the remote serves to the collector                                 *)
(***************************************************************************)
\* Most projects a listing has.
MaxProjects == 2

\* self.timeout, the timeout of one HTTP attempt, in seconds
request_timeout == 30

\* f.result(timeout=60)
unit_timeout == 60

\* The values of max_workers that collect_all_services is called with.
WorkerCounts == {2}

\* The lists get_all_projects can return, as the projects' names: ids are the
\* ranks in the listing.  The names are all different or all the same.
NamesOf(n) ==
    { [i \in 1..n |-> IF i = 1 THEN "demo" ELSE IF i = 2 THEN "api" ELSE "web"],
      [i \in 1..n |-> "demo"] }

SequentialListings == UNION {NamesOf(n) : n \in 0..MaxProjects}

\* Runs with use_threads set are explored on listings of at most two projects.
ThreadedListings == NamesOf(0) \cup NamesOf(1) \cup NamesOf(2)

Listings(threads) == IF threads THEN ThreadedListings ELSE SequentialListings

\* The scripts of answers tried on the collector's requests.
FetchScripts ==
    { [i \in 1..max_retries |-> Http(200)],
      [i \in 1..max_retries |-> IF i < max_retries THEN TimeoutExc ELSE Http(200)],
      [i \in 1..max_retries |-> TimeoutExc],
      [i \in 1..max_retries |-> IF i = 1 THEN Http(429) ELSE Http(200)],
      [i \in 1..max_retries |-> Http(404)] }

\* Seconds one make_request call takes at least: each attempt that times out
\* takes self.timeout, and every sleep its duration.
RECURSIVE Duration(_, _)
Duration(s, a) ==
    IF a >= max_retries \/ a >= Len(s) THEN 0
    ELSE LET it == Attempt(s[a + 1], a)
             spent == (IF s[a + 1].exc = "Timeout" THEN request_timeout ELSE 0) + it.sleep
         IN  IF it.next = "retry" THEN spent + Duration(s, a + 1) ELSE spent

\* Entries of a repository tree.
infra_yaml == <<"i", "n", "f", "r", "a">> \o yaml
compose_yml == <<"d", "o", "c", "k", "e", "r", "-", "c", "o", "m", "p", "o", "s", "e">> \o yml
compose_yaml == <<"d", "o", "c", "k", "e", "r", "-", "c", "o", "m", "p", "o", "s", "e">> \o yaml
gitlab_ci_yml == <<".", "g", "i", "t", "l", "a", "b", "-", "c", "i">> \o yml
services_web_yml == services_ \o <<"w", "e", "b">> \o yml
readme_md == <<"R", "E", "A", "D", "M", "E", ".", "m", "d">>
charts_yml == <<"c", "h", "a", "r", "t", "s">> \o yml

Entry(t, n, p) == [type |-> t, name |-> n, path |-> p]

\* The trees the remote serves to the units of the pool; <<>> is also what a
\* failed fetch yields.
PoolTrees ==
    { <<>>,
      <<Entry("blob", compose_yml, "docker-compose.yml"), Entry("blob", readme_md, "README.md")>>,
      <<Entry("tree", charts_yml, "charts.yml"), Entry("blob", gitlab_ci_yml, ".gitlab-ci.yml")>>,
      <<Entry("blob", compose_yml, "docker-compose.yml"), Entry("blob", infra_yaml, "infra.yaml")>>,
      <<Entry("blob", infra_yaml, "infra.yaml"), Entry("blob", services_web_yml, "services_web.yml")>> }

\* The trees the remote serves on the sequential path: also two candidates
\* of the same name.
Trees(pool) ==
    IF pool THEN PoolTrees
    ELSE PoolTrees \cup
         { <<Entry("blob", infra_yaml, "a/infra.yaml"), Entry("blob", infra_yaml, "b/infra.yaml")>> }

\* The service maps find_services_in_yaml yields on the served documents, as
\* the entries in insertion order; str is false for a name that is no string
\* (a top-level "name: 5" next to "image").
web == <<"w", "e", "b">>
services_dot_web == <<"s", "e", "r", "v", "i", "c", "e", "s", ".", "w", "e", "b">>
Svc(n, t) == [name |-> n, str |-> TRUE, tag |-> t]

PoolServiceMaps ==
    { <<>>,
      <<Svc(web, "1.21")>>,
      <<[name |-> <<"5">>, str |-> FALSE, tag |-> "1.0"]>> }

\* On the sequential path also a map with two names that normalize to one.
RawServiceMaps(pool) ==
    IF pool THEN PoolServiceMaps
    ELSE PoolServiceMaps \cup {<<Svc(services_dot_web, "2.0"), Svc(web, "1.21")>>}

\* The file contents the remote serves: a document, and on the sequential
\* path also the empty text.
Contents(pool) ==
    (IF pool THEN {} ELSE {[empty |-> TRUE, services |-> <<>>]})
        \cup {[empty |-> FALSE, services |-> m] : m \in RawServiceMaps(pool)}

(***************************************************************************)
(* GitLabServiceCollector.analyze_project                                  *)
(***************************************************************************)
Excluded == {gitlab_ci_yml, compose_yml, compose_yaml}

\* The filter of the tree entries.
IsCandidate(f) ==
    /\ f.type = "blob"
    /\ EndsWith(f.name, yml) \/ EndsWith(f.name, yaml)
    /\ f.name \notin Excluded

RECURSIVE FilterYaml(_)
FilterYaml(files) ==
    IF files = <<>> THEN <<>>
    ELSE IF IsCandidate(Head(files))
        THEN <<[path |-> Head(files).path, name |-> Head(files).name]>>
                 \o FilterYaml(Tail(files))
    ELSE FilterYaml(Tail(files))

\* find_services_in_yaml on a served document.
find_services_in_yaml(c) == c.services

\* normalize_service_name raises on a name that is no string: it calls
\* name.replace.
NormalizeRaises(services) == \E k \in 1..Len(services) : ~services[k].str

\* {normalize_service_name(s): t for s, t in services.items()}
RECURSIVE NormDict(_, _)
NormDict(services, d) ==
    IF services = <<>> THEN d
    ELSE NormDict(Tail(services),
                  Put(d, normalize_service_name(Head(services).name), Head(services).tag))

ZeroStats ==
    [total_projects |-> 0, projects_with_yaml |-> 0, total_yaml_files |-> 0,
     total_services |-> 0, errors |-> 0]

IdleUnit ==
    [pos |-> "idle", files |-> <<>>, idx |-> 0, ps |-> EmptyDict, tmp |-> 0,
     n |-> 0, res |-> "pending", over |-> FALSE]

\* The unit returned or raised.
Finished(u, r) == [u EXCEPT !.pos = "done", !.res = r, !.files = <<>>, !.idx = 0,
                            !.tmp = 0, !.n = 0]

\* The end of an iteration, with a result returned whatever project_services
\* holds.
AfterFileNoCheck(u) ==
    IF u.idx < Len(u.files)
        THEN [u EXCEPT !.pos = "file", !.idx = @ + 1, !.tmp = 0, !.n = 0]
    ELSE [u EXCEPT !.pos = "rdP", !.tmp = 0, !.n = 0]

\* The end of one iteration of "for yf in yaml_files", and what follows the
\* loop: "if project_services".
AfterFile(u) ==
    IF u.idx < Len(u.files)
        THEN [u EXCEPT !.pos = "file", !.idx = @ + 1, !.tmp = 0, !.n = 0]
    ELSE IF u.ps # EmptyDict THEN [u EXCEPT !.pos = "rdP", !.tmp = 0, !.n = 0]
    ELSE Finished(u, "none")

N == Len(projects)

Units == DOMAIN unit

\* A unit a worker thread is executing.
Running(i) == unit[i].pos \notin {"idle", "queued", "done"}

\* The pool runs at most max_workers units at a time; on the sequential path
\* the caller runs the unit itself.
MayStart(i) ==
    /\ unit[i].pos = "queued"
    /\ pc = "collect" => Cardinality({j \in Units : Running(j)}) < workers

\* The unit's tree fetch alone takes longer than the bound of f.result.
Overtime(s) == Duration(s, 0) > unit_timeout

\* Lines 219-238: the tree fetch and the filter.
U_Tree(i) ==
    /\ pc \in {"collect", "seq"}
    /\ MayStart(i)
    /\ \E s \in FetchScripts, b \in {"json_list", "not_json"}, t \in Trees(pc = "collect") :
          LET r == make_request(s, 0).result
              o == OpOutcome("get_project_files", r, b)
              files == IF o = "value" THEN t ELSE <<>>
              yf == FilterYaml(files)
              u == [unit[i] EXCEPT !.over = Overtime(s)]
          IN  unit' = [unit EXCEPT ![i] =
                  IF o = "raised" THEN Finished(u, "raised")
                  ELSE IF files = <<>> \/ yf = <<>> THEN Finished(u, "none")
                  ELSE [u EXCEPT !.pos = "file", !.files = yf, !.idx = 1]]
    /\ reqs' = reqs \cup {"tree"}
    /\ UNCHANGED <<varsClient, varsPage, varsFn>>
    /\ UNCHANGED failed
    /\ UNCHANGED <<pc, use_threads, workers, group_id, endpoint, conn,
                   projects, stats, results, cur, mtmp, mfut, seen, incs>>

\* Lines 242-254: the content fetch of one candidate, the extraction, and
\* the read of the counter the iteration increments first.
U_File(i) ==
    /\ pc \in {"collect", "seq"}
    /\ unit[i].pos = "file"
    /\ \E s \in FetchScripts, c \in Contents(pc = "collect") :
          \* an empty file is served as the last candidate of the last project
          /\ c.empty => (i = Len(projects) /\ unit[i].idx = Len(unit[i].files))
          /\ LET r == make_request(s, 0).result
                 content == r = "response" /\ ~c.empty
                 services == find_services_in_yaml(c)
                 u == unit[i]
                 key == ManifestKey(u.files[u.idx].name)
             IN  /\ failed' = IF r = "none" THEN failed + 1 ELSE failed
                 /\ unit' = [unit EXCEPT ![i] =
                        IF ~content
                            THEN [u EXCEPT !.pos = "wrE", !.tmp = stats.errors]
                        ELSE IF services = <<>> THEN AfterFile(u)
                        ELSE IF NormalizeRaises(services) THEN Finished(u, "raised")
                        ELSE [u EXCEPT !.pos = "wrY",
                                       !.ps = Put(@, key, NormDict(services, EmptyDict)),
                                       !.tmp = stats.total_yaml_files,
                                       !.n = Len(services)]]
    /\ reqs' = reqs \cup {"file"}
    /\ UNCHANGED <<varsClient, varsPage, varsFn>>
    /\ UNCHANGED <<pc, use_threads, workers, group_id, endpoint, conn,
                   projects, stats, results, cur, mtmp, mfut, seen, incs>>

\* The store of a counter's "+= amount", whose read gave tmp.
Store(st, c, tmp, amount) == [st EXCEPT ![c] = tmp + amount]

\* Line 245: the store of self.stats["errors"] += 1.
U_WriteErrors(i) ==
    /\ unit[i].pos = "wrE"
    /\ stats' = Store(stats, "errors", unit[i].tmp, 1)
    /\ incs' = [incs EXCEPT !.errors = @ + 1]
    /\ unit' = [unit EXCEPT ![i] = AfterFile(@)]
    /\ UNCHANGED <<varsClient, varsPage, varsFn>>
    /\ UNCHANGED failed
    /\ UNCHANGED <<pc, use_threads, workers, group_id, endpoint, conn,
                   projects, results, cur, mtmp, mfut, reqs, seen>>

\* Line 255: the store of self.stats["total_yaml_files"] += 1.
U_WriteYamlFiles(i) ==
    /\ unit[i].pos = "wrY"
    /\ stats' = Store(stats, "total_yaml_files", unit[i].tmp, 1)
    /\ incs' = [incs EXCEPT !.total_yaml_files = @ + 1]
    /\ unit' = [unit EXCEPT ![i].pos = "rdS", ![i].tmp = 0]
    /\ UNCHANGED <<varsClient, varsPage, varsFn>>
    /\ UNCHANGED failed
    /\ UNCHANGED <<pc, use_threads, workers, group_id, endpoint, conn,
                   projects, results, cur, mtmp, mfut, reqs, seen>>

\* Line 256: the read of self.stats["total_services"] += len(services).
U_ReadServices(i) ==
    /\ unit[i].pos = "rdS"
    /\ unit' = [unit EXCEPT ![i].pos = "wrS", ![i].tmp = stats.total_services]
    /\ UNCHANGED <<varsClient, varsPage, varsFn>>
    /\ UNCHANGED failed
    /\ UNCHANGED <<pc, use_threads, workers, group_id, endpoint, conn,
                   projects, stats, results, cur, mtmp, mfut, reqs, seen, incs>>

\* Line 256: its store.
U_WriteServices(i) ==
    /\ unit[i].pos = "wrS"
    /\ stats' = Store(stats, "total_services", unit[i].tmp, unit[i].n)
    /\ incs' = [incs EXCEPT !.total_services = @ + unit[i].n]
    /\ unit' = [unit EXCEPT ![i] = AfterFile(@)]
    /\ UNCHANGED <<varsClient, varsPage, varsFn>>
    /\ UNCHANGED failed
    /\ UNCHANGED <<pc, use_threads, workers, group_id, endpoint, conn,
                   projects, results, cur, mtmp, mfut, reqs, seen>>

\* Line 262: the read of self.stats["projects_with_yaml"] += 1.
U_ReadProjects(i) ==
    /\ unit[i].pos = "rdP"
    /\ unit' = [unit EXCEPT ![i].pos = "wrP", ![i].tmp = stats.projects_with_yaml]
    /\ UNCHANGED <<varsClient, varsPage, varsFn>>
    /\ UNCHANGED failed
    /\ UNCHANGED <<pc, use_threads, workers, group_id, endpoint, conn,
                   projects, stats, results, cur, mtmp, mfut, reqs, seen, incs>>

\* Lines 262-263: its store, and the return of the project's result.
U_WriteProjects(i) ==
    /\ unit[i].pos = "wrP"
    /\ stats' = Store(stats, "projects_with_yaml", unit[i].tmp, 1)
    /\ incs' = [incs EXCEPT !.projects_with_yaml = @ + 1]
    /\ unit' = [unit EXCEPT ![i] = Finished(@, "result")]
    /\ UNCHANGED <<varsClient, varsPage, varsFn>>
    /\ UNCHANGED failed
    /\ UNCHANGED <<pc, use_threads, workers, group_id, endpoint, conn,
                   projects, results, cur, mtmp, mfut, reqs, seen>>

(***************************************************************************)
(* GitLabServiceCollector.collect_all_services                             *)
(***************************************************************************)
InitColl ==
    /\ pc = "start"
    /\ use_threads \in BOOLEAN
    /\ workers \in WorkerCounts
    /\ group_id = 0
    /\ endpoint = "none"
    /\ conn = "unknown"
    /\ projects = <<>>
    /\ stats = ZeroStats
    /\ results = EmptyDict
    /\ unit = <<>>
    /\ cur = 0
    /\ mtmp = 0
    /\ mfut = 0
    /\ reqs = {}
    /\ incs = ZeroStats
    /\ seen = {}
    /\ failed = 0

IdleColl ==
    /\ pc = "idle"
    /\ use_threads = FALSE
    /\ workers = 1
    /\ group_id = 0
    /\ endpoint = "none"
    /\ conn = "unknown"
    /\ projects = <<>>
    /\ stats = ZeroStats
    /\ results = EmptyDict
    /\ unit = <<>>
    /\ cur = 0
    /\ mtmp = 0
    /\ mfut = 0
    /\ reqs = {}
    /\ incs = ZeroStats
    /\ seen = {}
    /\ failed = 0

\* "if not self.api.test_connection(): return"
ConnectionAborts(c) == c = "failed"

\* A listing that never aborts the run.
ListingAbortsNever(ps) == FALSE

\* "if not projects: return"
ListingAborts(ps) == ps = <<>>

\* "if use_threads and len(projects) > 1"
Threaded(ps) == use_threads /\ Len(ps) > 1

\* A listing that is always scoped.
ListingEndpointScoped(g) == "group"

\* The URL get_all_projects requests: the group's projects "if group_id".
ListingEndpoint(g) == IF g # 0 THEN "group" ELSE "all"

\* Lines 272-277: the connectivity check, and the read of config.group_path
\* (gp: it is set).
C_TestConnection ==
    /\ pc = "start"
    /\ reqs' = reqs \cup {"version"}
    /\ \E s \in FetchScripts, b \in Bodies, gp \in BOOLEAN :
          LET o == OpOutcome("test_connection", make_request(s, 0).result, b)
              c == IF o = "value" THEN "ok" ELSE "failed"
          IN  IF o = "raised" THEN pc' = "raised" /\ conn' = conn
              ELSE /\ conn' = c
                   /\ pc' = IF ConnectionAborts(c) THEN "aborted"
                            ELSE IF gp THEN "group" ELSE "list"
    /\ UNCHANGED <<varsClient, varsPage, varsFn>>
    /\ UNCHANGED failed
    /\ UNCHANGED <<use_threads, workers, group_id, endpoint, projects, stats,
                   results, unit, cur, mtmp, mfut, seen, incs>>

\* Lines 278-282: the scope resolution; a group that is not found is not fatal.
C_GroupId ==
    /\ pc = "group"
    /\ reqs' = reqs \cup {"group"}
    /\ \E s \in FetchScripts, b \in Bodies :
          LET o == OpOutcome("get_group_id", make_request(s, 0).result, b)
          IN  IF o = "raised" THEN pc' = "raised" /\ group_id' = group_id
              ELSE /\ group_id' = IF o = "value" THEN 1 ELSE 0
                   /\ pc' = "list"
    /\ UNCHANGED <<varsClient, varsPage, varsFn>>
    /\ UNCHANGED failed
    /\ UNCHANGED <<use_threads, workers, endpoint, conn, projects, stats,
                   results, unit, cur, mtmp, mfut, seen, incs>>

\* Lines 284-287: the listing, and the abort on an empty one.  get_all_projects
\* raises on a page whose body is not JSON.
C_ListProjects ==
    /\ pc = "list"
    /\ reqs' = reqs \cup {"list"}
    /\ endpoint' = ListingEndpoint(group_id)
    /\ \E ps \in Listings(use_threads), raises \in BOOLEAN :
          IF raises THEN pc' = "raised" /\ projects' = projects
          ELSE /\ projects' = ps
               /\ pc' = IF ListingAborts(ps) THEN "aborted" ELSE "listed"
    /\ UNCHANGED <<varsClient, varsPage, varsFn>>
    /\ UNCHANGED failed
    /\ UNCHANGED <<use_threads, workers, group_id, conn, stats, results, unit,
                   cur, mtmp, mfut, seen, incs>>

\* Lines 289-295 and 304-305: the start of the analysis: every unit is
\* submitted to the pool, or the first project is analyzed by the caller.
\* group_id and the listing's URL are locals that are not read again.
C_Start ==
    /\ pc = "listed"
    /\ stats' = [stats EXCEPT !.total_projects = Len(projects)]
    /\ group_id' = 0
    /\ endpoint' = "none"
    /\ IF Threaded(projects)
         THEN /\ pc' = "collect"
              /\ cur' = cur
              /\ unit' = [i \in 1..Len(projects) |-> [IdleUnit EXCEPT !.pos = "queued"]]
         ELSE /\ pc' = IF projects = <<>> THEN "done" ELSE "seq"
              /\ cur' = IF projects = <<>> THEN cur ELSE 1
              /\ unit' = [i \in 1..Len(projects) |->
                            [IdleUnit EXCEPT !.pos = IF i = 1 THEN "queued" ELSE "idle"]]
    /\ UNCHANGED <<varsClient, varsPage, varsFn>>
    /\ UNCHANGED failed
    /\ UNCHANGED <<use_threads, workers, conn, projects, results, mtmp, mfut,
                   reqs, seen, incs>>

\* self.results[res["project_name"]] = res["services"]
StoreResult(rs, i) == Put(rs, projects[i], unit[i].ps)

\* Lines 296-300: as_completed yields a finished future whose unit returned.
M_Result(i) ==
    /\ pc = "collect"
    /\ mfut = 0
    /\ i \notin seen
    /\ unit[i].pos = "done"
    /\ unit[i].res \in {"none", "result"}
    /\ seen' = seen \cup {i}
    /\ results' = IF unit[i].res = "result" THEN StoreResult(results, i) ELSE results
    /\ UNCHANGED <<varsClient, varsPage, varsFn>>
    /\ UNCHANGED failed
    /\ UNCHANGED <<pc, use_threads, workers, group_id, endpoint, conn, projects,
                   stats, unit, cur, mtmp, mfut, reqs, incs>>

\* Lines 296-303: as_completed yields a finished future whose unit raised;
\* the handler reads the counter it increments.
M_Except(i) ==
    /\ pc = "collect"
    /\ mfut = 0
    /\ i \notin seen
    /\ unit[i].pos = "done"
    /\ unit[i].res = "raised"
    /\ seen' = seen \cup {i}
    /\ mfut' = i
    /\ mtmp' = stats.errors
    /\ UNCHANGED <<varsClient, varsPage, varsFn>>
    /\ UNCHANGED failed
    /\ UNCHANGED <<pc, use_threads, workers, group_id, endpoint, conn, projects,
                   stats, results, unit, cur, reqs, incs>>

\* Line 303: the store of self.stats["errors"] += 1.
M_CountFault ==
    /\ pc = "collect"
    /\ mfut # 0
    /\ stats' = Store(stats, "errors", mtmp, 1)
    /\ incs' = [incs EXCEPT !.errors = @ + 1]
    /\ mfut' = 0
    /\ mtmp' = 0
    /\ UNCHANGED <<varsClient, varsPage, varsFn>>
    /\ UNCHANGED failed
    /\ UNCHANGED <<pc, use_threads, workers, group_id, endpoint, conn, projects,
                   results, unit, cur, reqs, seen>>

\* Line 310: every future was collected.
M_Finish ==
    /\ pc = "collect"
    /\ mfut = 0
    /\ seen = Units
    /\ pc' = "done"
    /\ UNCHANGED <<varsClient, varsPage, varsFn>>
    /\ UNCHANGED failed
    /\ UNCHANGED <<use_threads, workers, group_id, endpoint, conn, projects,
                   stats, results, unit, cur, mtmp, mfut, reqs, seen, incs>>

\* Lines 305-308: analyze_project returned to the sequential loop.
S_Returned ==
    /\ pc = "seq"
    /\ unit[cur].pos = "done"
    /\ unit[cur].res \in {"none", "result"}
    /\ results' = IF unit[cur].res = "result" THEN StoreResult(results, cur) ELSE results
    /\ IF cur < N
         THEN /\ cur' = cur + 1
              /\ unit' = [unit EXCEPT ![cur + 1].pos = "queued"]
              /\ pc' = pc
         ELSE /\ pc' = "done"
              /\ UNCHANGED <<cur, unit>>
    /\ UNCHANGED <<varsClient, varsPage, varsFn>>
    /\ UNCHANGED failed
    /\ UNCHANGED <<use_threads, workers, group_id, endpoint, conn, projects,
                   stats, mtmp, mfut, reqs, seen, incs>>

\* Line 306: analyze_project raised in the sequential loop, which has no
\* handler: the exception leaves collect_all_services.
S_Raised ==
    /\ pc = "seq"
    /\ unit[cur].pos = "done"
    /\ unit[cur].res = "raised"
    /\ pc' = "raised"
    /\ UNCHANGED <<varsClient, varsPage, varsFn>>
    /\ UNCHANGED failed
    /\ UNCHANGED <<use_threads, workers, group_id, endpoint, conn, projects,
                   stats, results, unit, cur, mtmp, mfut, reqs, seen, incs>>

NextColl ==
    \/ C_TestConnection
    \/ C_GroupId
    \/ C_ListProjects
    \/ C_Start
    \/ \E i \in Units : U_Tree(i)
    \/ \E i \in Units : U_File(i)
    \/ \E i \in Units : U_WriteErrors(i)
    \/ \E i \in Units : U_WriteYamlFiles(i)
    \/ \E i \in Units : U_ReadServices(i)
    \/ \E i \in Units : U_WriteServices(i)
    \/ \E i \in Units : U_ReadProjects(i)
    \/ \E i \in Units : U_WriteProjects(i)
    \/ \E i \in Units : M_Result(i)
    \/ \E i \in Units : M_Except(i)
    \/ M_CountFault
    \/ M_Finish
    \/ S_Returned
    \/ S_Raised

(***************************************************************************)
(* YAMLAnalyzer.extract_image_tag                                          *)
(***************************************************************************)
\* The strings over alphabet A of at most n characters.
StringsUpTo(A, n) == UNION {[1..k -> A] : k \in 0..n}

\* Most characters of a modelled tag.
MaxTagLen == 6

Whitespace == {" ", "\t", "\n"}

\* s.strip()
RECURSIVE Strip(_)
Strip(s) ==
    IF s = <<>> THEN s
    ELSE IF Head(s) \in Whitespace THEN Strip(Tail(s))
    ELSE IF s[Len(s)] \in Whitespace THEN Strip(SubSeq(s, 1, Len(s) - 1))
    ELSE s

\* c in s
Contains(s, c) == \E k \in 1..Len(s) : s[k] = c

\* s.split(c)[-1]: what follows the last c of s, s itself when it has none
AfterLast(s, c) ==
    LET at == {k \in 1..Len(s) : s[k] = c}
    IN  IF at = {} THEN s
        ELSE Drop(s, CHOOSE k \in at : \A j \in at : j <= k)

\* s[a:-b]
Slice(s, a, b) == SubSeq(s, a + 1, Len(s) - b)

dollar_brace == <<"$", "{">>
dollar_brace2 == <<"$", "{", "{">>
brace == <<"}">>
brace2 == <<"}", "}">>

extract_image_tag(image_string) ==
    IF image_string = <<>> THEN <<>>
    ELSE LET s == Strip(image_string)
             tag == AfterLast(s, ":")
         IN  IF Contains(s, ":")
               THEN IF StartsWith(tag, dollar_brace) /\ EndsWith(tag, brace)
                      THEN Slice(tag, 2, 1)
                    ELSE IF StartsWith(tag, dollar_brace2) /\ EndsWith(tag, brace2)
                      THEN Slice(tag, 3, 2)
                    ELSE tag
             ELSE s

\* The image strings tried: a repository part, a tag part that is any string
\* of wrapper characters, and surrounding blanks.
ImageStrings ==
    { pre \o t \o post :
        pre \in {<<>>, <<"r", ":">>, <<" ", "r", ":">>, <<"r", ":", "p", ":">>},
        t \in StringsUpTo({"$", "{", "}", "V"}, MaxTagLen),
        post \in {<<>>, <<" ">>} }

(***************************************************************************)
(* YAMLAnalyzer.find_services_in_yaml: the walk of a parsed document       *)
(***************************************************************************)
\* A node of a parsed document: a mapping (items: its keys and values in
\* document order), a sequence (items: its elements, k unused), a string or
\* an integer (val: its text).
StrNode(v) == [kind |-> "str", val |-> v, items |-> <<>>]
IntNode(v) == [kind |-> "int", val |-> v, items |-> <<>>]
MapNode(items) == [kind |-> "map", val |-> <<>>, items |-> items]
SeqNode(elems) ==
    [kind |-> "seq", val |-> <<>>, items |-> [i \in DOMAIN elems |-> [k |-> <<>>, v |-> elems[i]]]]

image == <<"i", "m", "a", "g", "e">>
build == <<"b", "u", "i", "l", "d">>
name_key == <<"n", "a", "m", "e">>
container_name == <<"c", "o", "n", "t", "a", "i", "n", "e", "r", "_", "n", "a", "m", "e">>
service == <<"s", "e", "r", "v", "i", "c", "e">>
unnamed == <<"u", "n", "n", "a", "m", "e", "d">>

\* The keys whose values the walk does not descend into.
SkippedKeys ==
    { image, build,
      <<"n", "e", "t", "w", "o", "r", "k", "s">>,
      <<"v", "o", "l", "u", "m", "e", "s">>,
      <<"p", "o", "r", "t", "s">>,
      <<"e", "n", "v", "i", "r", "o", "n", "m", "e", "n", "t">> }

\* k in obj
HasKey(obj, k) == \E i \in DOMAIN obj.items : obj.items[i].k = k

\* obj[k]
Get(obj, k) == obj.items[CHOOSE i \in DOMAIN obj.items : obj.items[i].k = k].v

\* "not data": None, an empty mapping, sequence or string, the integer 0
Falsy(data) ==
    \/ data.kind \in {"map", "seq"} /\ data.items = <<>>
    \/ data.kind = "str" /\ data.val = <<>>
    \/ data.kind = "int" /\ data.val = <<"0">>

\* 'image' in obj and isinstance(obj['image'], str)
HasStringImage(obj) == HasKey(obj, image) /\ Get(obj, image).kind = "str"

\* next((obj.get(n) for n in ['name', 'container_name', 'service'] if n in obj),
\*      "unnamed")
SiblingName(obj) ==
    IF HasKey(obj, name_key) THEN Get(obj, name_key)
    ELSE IF HasKey(obj, container_name) THEN Get(obj, container_name)
    ELSE IF HasKey(obj, service) THEN Get(obj, service)
    ELSE StrNode(unnamed)

\* services[name] = tag, services being the entries in insertion order
Assign(services, n, isstr, t) ==
    IF \E j \in DOMAIN services : services[j].name = n /\ services[j].str = isstr
      THEN [j \in DOMAIN services |->
               IF services[j].name = n /\ services[j].str = isstr
                 THEN [services[j] EXCEPT !.tag = t] ELSE services[j]]
    ELSE Append(services, [name |-> n, str |-> isstr, tag |-> t])

\* str(i) of a sequence index
IndexText(i) == <<<<"0", "1", "2", "3", "4", "5", "6", "7", "8", "9">>[i + 1]>>

\* recursive_search(obj, path): acc holds the services dictionary and the
\* nodes visited so far, each as the keys and indexes that lead to it.
RECURSIVE recursive_search(_, _, _, _)
RECURSIVE SearchItems(_, _, _, _, _)
recursive_search(obj, path, trail, acc) ==
    LET seen1 == [acc EXCEPT !.visited = Append(@, trail)]
    IN  IF obj.kind = "map"
          THEN LET nm == IF path # <<>> THEN StrNode(path) ELSE SiblingName(obj)
                   acc1 == IF HasStringImage(obj)
                             THEN [seen1 EXCEPT !.services =
                                      Assign(@, nm.val, nm.kind = "str",
                                             extract_image_tag(Get(obj, image).val))]
                           ELSE seen1
               IN  SearchItems(obj, 1, path, trail, acc1)
        ELSE IF obj.kind = "seq" THEN SearchItems(obj, 1, path, trail, seen1)
        ELSE seen1

SearchItems(obj, i, path, trail, acc) ==
    IF i > Len(obj.items) THEN acc
    ELSE LET it == obj.items[i]
         IN  IF obj.kind = "map"
               THEN IF it.k \in SkippedKeys THEN SearchItems(obj, i + 1, path, trail, acc)
                    ELSE SearchItems(obj, i + 1, path, trail,
                             recursive_search(it.v,
                                 IF path # <<>> THEN path \o <<".">> \o it.k ELSE it.k,
                                 Append(trail, it.k), acc))
             ELSE SearchItems(obj, i + 1, path, trail,
                      recursive_search(it.v,
                          path \o <<"[">> \o IndexText(i - 1) \o <<"]">>,
                          Append(trail, <<"[">> \o IndexText(i - 1) \o <<"]">>), acc))

\* The walk of the document safe_load returned.
WalkDocument(data) ==
    IF Falsy(data) THEN [services |-> <<>>, visited |-> <<>>]
    ELSE recursive_search(data, <<>>, <<>>, [services |-> <<>>, visited |-> <<>>])

\* The documents tried.  A mapping is written as the concatenation of its
\* pairs, an absent key being the empty sequence.  Top: mappings with an
\* optional image and name and children under 'w' (a leaf, or a sequence of
\* one or two services), under 'build' and under 'a['; then the same one
\* level down, sequences at the root, and scalars.
Documents ==
    LET w_key == <<"w">>
        a_bracket == <<"a", "[">>
        nginx_1 == <<"n", ":", "1">>
        Pair(k, v) == <<[k |-> k, v |-> v]>>
        Absent == <<>>
        ImageOptions == {Absent, Pair(image, StrNode(nginx_1)), Pair(image, IntNode(<<"5">>))}
        NameOptions == {Absent, Pair(name_key, StrNode(w_key)), Pair(name_key, IntNode(<<"5">>))}
        LeafMaps == {MapNode(i \o n) : i \in ImageOptions, n \in NameOptions}
        Services == {m \in LeafMaps : HasStringImage(m)}
        ChildValues ==
            LeafMaps \cup {SeqNode(<<m>>) : m \in Services}
                     \cup {SeqNode(<<m, n>>) : m \in Services, n \in Services}
        Built == MapNode(Pair(image, StrNode(nginx_1)))
        TopMaps ==
            { MapNode(i \o n \o c \o b \o x) :
                i \in ImageOptions, n \in NameOptions,
                c \in {Absent} \cup {Pair(w_key, v) : v \in ChildValues},
                b \in {Absent} \cup {Pair(build, v) : v \in {Built, SeqNode(<<Built>>)}},
                x \in {Absent, Pair(a_bracket, Built)} }
    IN  TopMaps
          \cup {MapNode(Pair(w_key, m)) :
                    m \in {t \in TopMaps : ~HasKey(t, build) /\ ~HasKey(t, a_bracket)}}
          \cup {SeqNode(<<m>>) : m \in LeafMaps}
          \cup {SeqNode(<<m, n>>) : m \in LeafMaps, n \in LeafMaps}
          \cup {StrNode(nginx_1), StrNode(<<>>)}

(***************************************************************************)
(* The names normalize_service_name is applied to                          *)
(***************************************************************************)
\* Most pieces of a modelled name.
MaxNameTokens == 3

services_dot == <<"s", "e", "r", "v", "i", "c", "e", "s", ".">>

\* The pieces names are made of: the prefix the normalizer strips, written
\* with either separator, the separators, brackets and a letter.
NameTokens ==
    {services_, services_dot, <<"-">>, <<"_">>, <<".">>, <<"[">>, <<"]">>, <<"a">>}

RECURSIVE Concat(_)
Concat(ts) == IF ts = <<>> THEN <<>> ELSE Head(ts) \o Concat(Tail(ts))

Names == {Concat(ts) : ts \in StringsUpTo(NameTokens, MaxNameTokens)}

(***************************************************************************)
(* The trees the filter and the keying of analyze_project are applied to   *)
(***************************************************************************)
\* The pieces file names are made of.
FileTokens == {<<"a">>, yml, yaml, services_}

FileNames ==
    {Concat(ts) : ts \in StringsUpTo(FileTokens, MaxNameTokens)}
        \cup Excluded \cup {infra_yaml, readme_md}

\* The project "demo": docker-compose.yml and infra.yaml.
DemoTree ==
    <<Entry("blob", compose_yml, "docker-compose.yml"), Entry("blob", infra_yaml, "infra.yaml")>>

\* Trees of one entry of either type, and the tree of "demo".
FilterTrees ==
    {<<Entry(t, n, "path")>> : t \in {"blob", "tree"}, n \in FileNames} \cup {DemoTree}

(***************************************************************************)
(* One call of a function                                                  *)
(***************************************************************************)
IdleFn ==
    /\ fn = "none"
    /\ arg = <<>>
    /\ ret = <<>>

InitFn ==
    /\ ret = <<>>
    /\ \/ fn = "extract_image_tag" /\ arg \in ImageStrings
       \/ fn = "normalize_service_name" /\ arg \in Names
       \/ fn = "find_services_in_yaml" /\ arg \in Documents
       \/ fn = "analyze_project" /\ arg \in FilterTrees

F_ExtractImageTag ==
    /\ fn = "extract_image_tag"
    /\ ret = <<>>
    /\ ret' = <<extract_image_tag(arg)>>
    /\ UNCHANGED <<varsClient, varsPage, varsColl>>
    /\ UNCHANGED <<fn, arg>>

\* normalize_service_name applied to a name, and then to its own result.
F_Normalize ==
    /\ fn = "normalize_service_name"
    /\ Len(ret) < 2
    /\ ret' = Append(ret, normalize_service_name(IF ret = <<>> THEN arg ELSE ret[Len(ret)]))
    /\ UNCHANGED <<varsClient, varsPage, varsColl>>
    /\ UNCHANGED <<fn, arg>>

\* find_services_in_yaml on a document that parses.
F_FindServices ==
    /\ fn = "find_services_in_yaml"
    /\ ret = <<>>
    /\ ret' = <<WalkDocument(arg)>>
    /\ UNCHANGED <<varsClient, varsPage, varsColl>>
    /\ UNCHANGED <<fn, arg>>

\* Lines 249-250 of analyze_project: the keys of a non-empty service map are
\* normalized; the comprehension raises on a name that is no string.
F_NormalizeKeys ==
    /\ fn = "find_services_in_yaml"
    /\ Len(ret) = 1
    /\ ret[1].services # <<>>
    /\ ret' = Append(ret,
                IF NormalizeRaises(ret[1].services)
                  THEN [raised |-> TRUE, norm |-> EmptyDict]
                ELSE [raised |-> FALSE, norm |-> NormDict(ret[1].services, EmptyDict)])
    /\ UNCHANGED <<varsClient, varsPage, varsColl>>
    /\ UNCHANGED <<fn, arg>>

\* Lines 228-232 and 251-253 of analyze_project: the candidates of a tree and
\* the key each one's manifest is recorded under.
F_FilterAndKey ==
    /\ fn = "analyze_project"
    /\ ret = <<>>
    /\ LET yaml_files == FilterYaml(arg)
       IN  ret' = <<[yaml_files |-> yaml_files,
                     keys |-> [j \in DOMAIN yaml_files |-> ManifestKey(yaml_files[j].name)]]>>
    /\ UNCHANGED <<varsClient, varsPage, varsColl>>
    /\ UNCHANGED <<fn, arg>>

NextFn ==
    \/ F_ExtractImageTag
    \/ F_Normalize
    \/ F_FindServices
    \/ F_NormalizeKeys
    \/ F_FilterAndKey

(***************************************************************************)
(* Specifications                                                          *)
(***************************************************************************)
Init == InitColl /\ IdleClient /\ IdlePage /\ IdleFn
Next == NextColl
Spec == Init /\ [][Next]_vars

InitC == InitClient /\ IdleColl /\ IdlePage /\ IdleFn
NextC == NextClient
SpecClient == InitC /\ [][NextC]_vars

InitP == InitPage /\ IdleColl /\ IdleClient /\ IdleFn
NextP == NextPage
SpecPage == InitP /\ [][NextP]_vars

InitF == InitFn /\ IdleColl /\ IdleClient /\ IdlePage
NextF == NextFn
SpecFn == InitF /\ [][NextF]_vars

(***************************************************************************)
(* Properties                                                              *)
(***************************************************************************)
\* The counters the analysis increments.
Counters == {"errors", "total_yaml_files", "total_services", "projects_with_yaml"}

\* The unit's result was stored in results (line 300 or 308).
Contributed(i) ==
    /\ unit[i].res = "result"
    /\ IF pc \in {"seq", "raised"} THEN i < cur ELSE pc = "done" \/ i \in seen

\* The run took the threaded path.
ThreadedRun == pc \in {"collect", "done"} /\ Threaded(projects)

\* C1: in threaded mode no increment of a shared counter is lost: when the
\* run is over, each counter equals the sum of the amounts that the "+="
\* executed on it have added.
C1_NoLostIncrement ==
    (pc = "done" /\ ThreadedRun) => \A c \in Counters : stats[c] = incs[c]

\* C2: answered 429, 429, 200, make_request sleeps exactly twice, 2 s and then
\* 4 s, and returns the 200 response.
C2_RateLimitScenario ==
    (script = <<Http(429), Http(429), Http(200)>> /\ mrResult # "pending")
        => (sleeps = <<2, 4>> /\ mrResult = "response")

\* C3: in threaded mode a unit that runs longer than the bound of f.result
\* contributes nothing to the final results.
C3_TimedOutUnitDiscarded ==
    (pc = "done" /\ ThreadedRun)
        => \A i \in Units : unit[i].over => ~Contributed(i)

\* C4: in threaded mode a unit that raises prevents no other unit's result
\* from being stored, no entry of the final results is a faulting unit's, and
\* the store that counts a fault leaves the errors counter greater by
\* exactly 1.
C4_FaultIsolated ==
    [][/\ (mfut # 0 /\ mfut' = 0) => stats'.errors = stats.errors + 1
       /\ (pc' = "done" /\ Threaded(projects))
            => /\ \A i \in DOMAIN unit' :
                     unit'[i].res = "result" => projects'[i] \in DOMAIN results'
               /\ \A name \in DOMAIN results' :
                     \E i \in DOMAIN unit' :
                        /\ projects'[i] = name
                        /\ unit'[i].res = "result"
                        /\ unit'[i].ps = results'[name]]_vars

\* The part of C4 that is about results alone.
C4_ResultsIsolated ==
    (pc = "done" /\ Threaded(projects))
        => /\ \A i \in Units : unit[i].res = "result" => projects[i] \in DOMAIN results
           /\ \A name \in DOMAIN results :
                 \E i \in Units :
                    projects[i] = name /\ unit[i].res = "result" /\ unit[i].ps = results[name]

\* C5: on the sequential path a unit's fault never leaves
\* collect_all_services as an exception.
C5_SequentialFaultNotFatal ==
    ~(pc = "raised" /\ \E i \in Units : unit[i].res = "raised")

\* C6: when the connectivity check fails or the listing comes back empty, the
\* run is aborted with results empty, every counter 0 and no tree or content
\* request issued; the scope resolution and the listing come after a
\* successful connectivity check, and every analysis after a non-empty listing.
AbortCase ==
    \/ conn = "failed"
    \/ "list" \in reqs /\ projects = <<>> /\ pc # "raised"

C6_AbortNoOutput ==
    /\ AbortCase
        => /\ pc = "aborted"
           /\ results = EmptyDict
           /\ stats = ZeroStats
           /\ reqs \cap {"tree", "file"} = {}
           /\ unit = <<>>
    /\ (pc \in {"group", "list"} \/ group_id # 0 \/ "list" \in reqs)
        => ("version" \in reqs /\ conn = "ok")
    /\ (reqs \cap {"tree", "file"} # {} \/ unit # <<>>)
        => ("list" \in reqs /\ projects # <<>>)

\* The listing came back empty and the run was aborted.
C6_Witness == pc = "aborted" /\ "list" \in reqs /\ projects = <<>>

\* C7: on a listing of N full pages, each but the last advertising a next
\* page, and a cap C with 0 < C < N * per_page, get_all_projects returns the
\* first C projects in remote order.
C7_PaginationCap ==
    (ppc = "returned" /\ IsRegular(remote) /\ 0 < cap /\ cap < Len(remote) * per_page)
        => all_projects = SubSeq(RemoteConcat(remote, 1), 1, cap)

\* A cap inside the second page of a longer listing was applied.
C7_Witness ==
    /\ ppc = "returned"
    /\ IsRegular(remote)
    /\ Len(remote) > 2
    /\ cap = per_page + 1
    /\ Len(all_projects) = cap

C9_ResultsNonEmpty ==
    /\ \A name \in DOMAIN results :
          /\ results[name] # EmptyDict
          /\ \A k \in DOMAIN results[name] : results[name][k] # EmptyDict
          /\ \E i \in Units :
                projects[i] = name /\ Contributed(i) /\ unit[i].ps = results[name]
    /\ \A i \in Units :
          /\ unit[i].res = "none" => unit[i].ps = EmptyDict
          /\ unit[i].res = "result" => unit[i].ps # EmptyDict

\* A run is over in which one project has an entry and another returned
\* nothing.
C9_Witness ==
    /\ pc = "done"
    /\ results # EmptyDict
    /\ \E i \in Units : unit[i].res = "none"

\* C10: no step lowers a counter, and no step, which is at most one logical
\* fetch with all its HTTP attempts, adds more than one increment to errors
\* or to total_yaml_files.
C10_MonotoneNoDoubleCount ==
    [][/\ \A c \in DOMAIN stats : stats'[c] >= stats[c]
       /\ incs'.errors <= incs.errors + 1
       /\ incs'.total_yaml_files <= incs.total_yaml_files + 1]_vars

\* C11: extract_image_tag returns, for an image string that contains ':',
\* what follows its last ':', less the 3 leading and 2 trailing characters of
\* a '${{...}}' wrapper or the 2 leading and 1 trailing characters of a
\* '${...}' wrapper, and unmodified without a wrapper; for a string without
\* ':' it returns the whole trimmed string.
TagContract(image_string) ==
    LET s == Strip(image_string)
        tag == AfterLast(s, ":")
    IN  IF ~Contains(s, ":") THEN s
        ELSE IF StartsWith(tag, dollar_brace2) /\ EndsWith(tag, brace2) /\ Len(tag) >= 5
            THEN Slice(tag, 3, 2)
        ELSE IF StartsWith(tag, dollar_brace) /\ EndsWith(tag, brace) /\ Len(tag) >= 3
            THEN Slice(tag, 2, 1)
        ELSE tag

C11_ExtractImageTag ==
    (fn = "extract_image_tag" /\ ret # <<>>) => ret[1] = TagContract(arg)

\* C12: normalize_service_name is idempotent: applied to its own result it
\* returns that result.
C12_NormalizeIdempotent ==
    (fn = "normalize_service_name" /\ Len(ret) = 2) => ret[2] = ret[1]

\* C13: every key analyze_project records for a service is normalized: it
\* holds no '-', '.', '[' or ']', no two '_' in a row, and neither starts nor
\* ends with '_'.
NormalizedKey(k) ==
    /\ \A j \in DOMAIN k : k[j] \notin {"-", ".", "[", "]"}
    /\ \A j \in 1..(Len(k) - 1) : ~(k[j] = "_" /\ k[j + 1] = "_")
    /\ k # <<>> => (k[1] # "_" /\ k[Len(k)] # "_")

C13_KeysNormalized ==
    (fn = "find_services_in_yaml" /\ Len(ret) = 2)
        => \A k \in DOMAIN ret[2].norm : NormalizedKey(k)

\* C14: the walk returns exactly one entry per mapping node that holds a
\* string-valued 'image' and is under none of the keys the walk skips, and
\* it visits no node under such a key.
RECURSIVE ImageNodes(_)
RECURSIVE ImageNodesBelow(_, _)
ImageNodes(obj) ==
    (IF obj.kind = "map" /\ HasStringImage(obj) THEN 1 ELSE 0) + ImageNodesBelow(obj, 1)

ImageNodesBelow(obj, i) ==
    IF i > Len(obj.items) THEN 0
    ELSE (IF obj.kind = "map" /\ obj.items[i].k \in SkippedKeys THEN 0
          ELSE ImageNodes(obj.items[i].v))
         + ImageNodesBelow(obj, i + 1)

C14_WalkOneEntryPerNode ==
    (fn = "find_services_in_yaml" /\ ret # <<>>)
        => /\ Len(ret[1].services) = ImageNodes(arg)
           /\ \A j \in DOMAIN ret[1].visited :
                 \A t \in DOMAIN ret[1].visited[j] : ret[1].visited[j][t] \notin SkippedKeys

\* C15: one call of make_request makes at most max_retries HTTP attempts; a
\* further attempt follows only a timeout, after a sleep of 2^attempt seconds,
\* or a 429; a response with a status other than 200 and 429, and an
\* exception other than a timeout, end the call with no result on that
\* attempt, with no sleep; when every attempt times out the call yields no
\* result.
C15_RetryPolicy ==
    /\ attempt <= max_retries
    /\ Len(sleeps) = attempt
    /\ \A k \in 1..attempt :
          /\ script[k] = TimeoutExc \/ script[k] = Http(429)
          /\ script[k] = TimeoutExc => sleeps[k] = 2 ^ (k - 1)
    /\ mrResult # "pending" =>
          IF attempt = max_retries THEN mrResult = "none"
          ELSE LET r == script[attempt + 1]
               IN  /\ r # TimeoutExc
                   /\ (r.exc = "none" /\ r.status \notin {200, 429}) => mrResult = "none"
                   /\ r.exc # "none" => mrResult = "none"
                   /\ mrResult = "response" => r = Http(200)
    /\ (mrResult # "pending" /\ \A k \in 1..max_retries : script[k] = TimeoutExc)
          => (mrResult = "none" /\ attempt = max_retries)

\* Every attempt timed out and the call gave up after the third sleep.
C15_Witness ==
    /\ script = [k \in 1..max_retries |-> TimeoutExc]
    /\ mrResult = "none"
    /\ sleeps = <<1, 2, 4>>

\* C16: a scope resolution that yields nothing is not fatal: the run goes on
\* to the listing, which then requests the unscoped endpoint, and the
\* projects listed are analyzed; a listing after a resolution that yielded an
\* id requests the scoped endpoint.
C16_ScopeFailureNotFatal ==
    /\ ("group" \in reqs /\ pc \notin {"group", "raised"})
          => /\ pc \in {"list", "listed", "aborted", "collect", "seq", "done"}
             /\ pc = "aborted" => "list" \in reqs
    /\ endpoint # "none" => (endpoint = "all" <=> group_id = 0)
    /\ endpoint # "none" => (endpoint = "group" <=> group_id # 0)
    /\ (pc = "listed" /\ "group" \notin reqs) => endpoint = "all"
    /\ (pc \in {"collect", "seq", "done"} /\ "group" \in reqs)
          => (unit # <<>> /\ stats.total_projects = Len(projects))

\* The group was not found and the projects were listed without a scope.
C16_Witness ==
    /\ "group" \in reqs
    /\ pc = "listed"
    /\ group_id = 0
    /\ endpoint = "all"

\* C17: a candidate whose content fetch fails adds exactly 1 to errors and
\* nothing to the project's manifests, and the unit goes on to the next
\* candidate, or to the end of the loop after the last; a manifest that is
\* recorded changes the project's manifests at its own key only.
FileFailureStep(i) ==
    /\ (unit[i].pos = "file" /\ unit'[i].pos = "wrE")
          => /\ unit'[i].ps = unit[i].ps
             /\ unit'[i].idx = unit[i].idx
             /\ stats' = stats
    /\ (unit[i].pos = "wrE" /\ unit'[i].pos # "wrE")
          => /\ stats'.errors = stats.errors + 1
             /\ unit'[i].ps = unit[i].ps
             /\ IF unit[i].idx < Len(unit[i].files)
                  THEN /\ unit'[i].pos = "file"
                       /\ unit'[i].idx = unit[i].idx + 1
                       /\ unit'[i].files = unit[i].files
                ELSE IF unit[i].ps # EmptyDict THEN unit'[i].pos = "rdP"
                ELSE unit'[i].pos = "done" /\ unit'[i].res = "none"
    /\ (unit[i].pos = "file" /\ unit'[i].pos = "wrY")
          => LET key == ManifestKey(unit[i].files[unit[i].idx].name)
             IN  /\ key \in DOMAIN unit'[i].ps
                 /\ \A k \in DOMAIN unit[i].ps :
                       k # key => (k \in DOMAIN unit'[i].ps /\ unit'[i].ps[k] = unit[i].ps[k])

C17_FileFailureIsolated ==
    [][\A i \in (DOMAIN unit) \cap (DOMAIN unit') : FileFailureStep(i)]_vars

\* C17 on the sequential path, where no other thread runs.
C17_SequentialIsolated ==
    [][pc = "seq" => \A i \in (DOMAIN unit) \cap (DOMAIN unit') : FileFailureStep(i)]_vars

\* C18: the candidates of a tree are exactly its blobs whose name ends in
\* '.yml' or '.yaml' and is none of '.gitlab-ci.yml', 'docker-compose.yml'
\* and 'docker-compose.yaml'; a manifest's key is the file name less its
\* extension and less a leading 'services_'; for the project "demo" the one
\* candidate is infra.yaml, keyed "infra".
ExtensionStripped(n) ==
    IF EndsWith(n, yaml) THEN SubSeq(n, 1, Len(n) - Len(yaml))
    ELSE IF EndsWith(n, yml) THEN SubSeq(n, 1, Len(n) - Len(yml))
    ELSE n

KeyContract(n) ==
    LET base == ExtensionStripped(n)
    IN  IF StartsWith(base, services_) THEN Drop(base, Len(services_)) ELSE base

CandidateContract(f) ==
    /\ f.type = "blob"
    /\ EndsWith(f.name, yml) \/ EndsWith(f.name, yaml)
    /\ f.name \notin {gitlab_ci_yml, compose_yml, compose_yaml}

C18_FilterAndKey ==
    (fn = "analyze_project" /\ ret # <<>>)
        => /\ Len(ret[1].yaml_files) = Cardinality({j \in DOMAIN arg : CandidateContract(arg[j])})
           /\ \A j \in DOMAIN ret[1].yaml_files :
                 /\ \E k \in DOMAIN arg :
                       /\ CandidateContract(arg[k])
                       /\ arg[k].name = ret[1].yaml_files[j].name
                       /\ arg[k].path = ret[1].yaml_files[j].path
                 /\ ret[1].keys[j] = KeyContract(ret[1].yaml_files[j].name)
           /\ arg = DemoTree => ret[1].keys = <<<<"i", "n", "f", "r", "a">>>>

\* C19: get_all_projects requests the pages 1, 2, 3, ... in order and stops
\* at the first page that is empty (a page whose request failed has no
\* projects), that makes the accumulator reach the cap, or that carries no
\* next-page signal; the list returned is the concatenation of the fetched
\* pages in remote order, cut at a positive cap, which it never exceeds; with
\* a positive cap the loop makes at most cap page requests.
RECURSIVE FetchedUpTo(_)
FetchedUpTo(k) ==
    IF k = 0 THEN <<>>
    ELSE FetchedUpTo(k - 1) \o Items(k, PageAt(remote, k).size)

\* Page k ends the loop.
StopsAt(k) ==
    \/ PageAt(remote, k).size = 0
    \/ cap > 0 /\ Len(FetchedUpTo(k)) >= cap
    \/ ~PageAt(remote, k).next

C19_PaginationLoop ==
    LET k == Len(requested)
        full == FetchedUpTo(k)
    IN  /\ requested = [j \in 1..k |-> j]
        /\ \A j \in 1..(k - 1) : ~StopsAt(j)
        /\ ppc = "loop" => (page = k + 1 /\ all_projects = full)
        /\ ppc = "returned" /\ remote # <<>>
              => /\ StopsAt(k)
                 /\ all_projects =
                       IF cap > 0 /\ Len(full) >= cap THEN SubSeq(full, 1, cap) ELSE full
        /\ cap > 0 => (Len(all_projects) <= cap /\ k <= cap)
        /\ \A j \in 1..(Len(all_projects) - 1) : all_projects[j] < all_projects[j + 1]

\* A remote that always announces a next page was left after cap requests.
C19_Witness ==
    /\ ppc = "returned"
    /\ cap = 2
    /\ Len(remote) = 3
    /\ \A j \in 1..3 : remote[j] = [resp |-> "ok", size |-> 1, next |-> TRUE]
    /\ requested = <<1, 2>>
    /\ all_projects = <<1, per_page + 1>>

\* C20: after a run with no failed fetch and no faulting unit, total_projects
\* is the number of projects listed, projects_with_yaml the number of keys
\* of results, total_yaml_files the number of manifests in results and
\* total_services the number of services in those manifests.
RECURSIVE ManifestCount(_, _)
ManifestCount(rs, names) ==
    IF names = {} THEN 0
    ELSE LET n == CHOOSE x \in names : TRUE
         IN  Cardinality(DOMAIN rs[n]) + ManifestCount(rs, names \ {n})

RECURSIVE ServiceCount(_, _)
ServiceCount(ms, keys) ==
    IF keys = {} THEN 0
    ELSE LET k == CHOOSE x \in keys : TRUE
         IN  Cardinality(DOMAIN ms[k]) + ServiceCount(ms, keys \ {k})

RECURSIVE TotalServiceCount(_, _)
TotalServiceCount(rs, names) ==
    IF names = {} THEN 0
    ELSE LET n == CHOOSE x \in names : TRUE
         IN  ServiceCount(rs[n], DOMAIN rs[n]) + TotalServiceCount(rs, names \ {n})

FaultFree ==
    /\ pc = "done"
    /\ incs.errors = 0
    /\ \A i \in Units : unit[i].res # "raised"

StatsAgree ==
    /\ stats.total_projects = Len(projects)
    /\ stats.projects_with_yaml = Cardinality(DOMAIN results)
    /\ stats.total_yaml_files = ManifestCount(results, DOMAIN results)
    /\ stats.total_services = TotalServiceCount(results, DOMAIN results)

C20_StatsAgreeWithResults == FaultFree => StatsAgree

\* C20 on the sequential path, where no increment can be lost.
C20_SequentialStatsAgree == (FaultFree /\ ~Threaded(projects)) => StatsAgree

\* C21: when a run is over, errors is the number of candidate files whose
\* content fetch failed plus the number of units that faulted; a candidate
\* that was fetched with an empty content adds nothing to errors.
FaultedUnits == Cardinality({i \in Units : unit[i].res = "raised"})

C21_ErrorsCountOnlyFailures ==
    pc = "done" => stats.errors = failed + FaultedUnits

\* C21 on the sequential path for runs in which every increment of errors
\* followed a failed fetch.
C21_SequentialFailuresCounted ==
    (pc = "done" /\ ~Threaded(projects) /\ incs.errors = failed)
        => stats.errors = failed + FaultedUnits

====
